---- MODULE Spec2Model ----
(***************************************************************************)
(* The account handlers of src/Controllers/User.js over the User           *)
(* collection of src/model/User.model.js, the OTP collection and the set   *)
(* of pending setTimeout callbacks.  Every handler is one atomic action.   *)
(***************************************************************************)
EXTENDS Integers, Naturals, Sequences, FiniteSets, TLC

VARIABLES users, otps, timers, nextId, req, res, liked, calls

vars == <<users, otps, timers, nextId, req, res, liked, calls>>

(***************************************************************************)
(* Bounds and input domains                                                *)
(***************************************************************************)
\* number of distinct password strings requests may carry
NumPasswords == 2
Passwords == 1..NumPasswords

\* request spellings of emails; the second is the first with capitals
Emails == {"a@x.com", "A@x.com", "b@x.com"}
Usernames == {"ann", "bob"}
Salts == {"s1"}
\* the codes otpGenerator may draw, and the codes a request may carry
GeneratedOtps == {"111111"}
OtpCodes == {"111111", "222222"}
NoFile == "nofile"
Files == {NoFile, "png"}

\* ids: "zz" is a string that is no ObjectId, "id3" a well-formed ObjectId
\* the store never hands out; a path carries an id the store may hand out
\* (it names no user until the store does) or the malformed one
ObjectIds == <<"id1", "id2">>
WellFormedIds == {"id1", "id2", "id3"}
PathIds == {"id1", "id2", "zz"}

(***************************************************************************)
(* Schema (src/model/User.model.js)                                        *)
(***************************************************************************)
\* the paths userSchema declares; the schema is strict (mongoose default)
SchemaPaths == {"Username", "email", "password", "image", "isVerified"}

\* email: { lowercase: true } -- the setter runs on saves and on query filters
Lowercase(e) == IF e = "A@x.com" THEN "a@x.com" ELSE e

\* isVerified: { default: false }
IsVerifiedDefault == FALSE

NoHash == [salt |-> "", digest |-> <<"", 0>>]
NoDoc == [_id |-> "", Username |-> "", email |-> "", password |-> NoHash,
          image |-> <<"", "">>, isVerified |-> FALSE, markedForDeletion |-> FALSE]

\* a strict schema drops the paths of an update it does not declare
CastUpdate(upd) == [p \in (DOMAIN upd) \cap SchemaPaths |-> upd[p]]

ApplyUpdate(doc, upd) ==
  [p \in DOMAIN doc |-> IF p \in DOMAIN CastUpdate(upd) THEN upd[p] ELSE doc[p]]

\* reading a path of a hydrated document: undeclared paths read undefined
DocGet(doc, p) == IF p \in SchemaPaths THEN doc[p] ELSE FALSE

(***************************************************************************)
(* Store queries                                                           *)
(***************************************************************************)
ObjectIdIsValid(id) == id \in WellFormedIds

FindById(id) ==
  IF \E u \in users : u._id = id THEN CHOOSE u \in users : u._id = id ELSE NoDoc

FindByEmail(email) ==
  IF \E u \in users : u.email = Lowercase(email)
  THEN CHOOSE u \in users : u.email = Lowercase(email) ELSE NoDoc

FindByIdAndUpdate(id, upd) ==
  {IF u._id = id THEN ApplyUpdate(u, upd) ELSE u : u \in users}

(***************************************************************************)
(* bcrypt                                                                  *)
(***************************************************************************)
BcryptHash(password, salt) == [salt |-> salt, digest |-> <<salt, password>>]
BcryptCompare(password, hash) == hash.digest = <<hash.salt, password>>

(***************************************************************************)
(* Token issuer (utils/GenerateToken.js)                                   *)
(***************************************************************************)
NoToken == [kind |-> "none", aud |-> "", sig |-> <<"", "">>, expired |-> FALSE]
ClearedCookie == [kind |-> "cleared", aud |-> "", sig |-> <<"", "">>, expired |-> TRUE]
SecretOf(kind) == IF kind = "access" THEN "ACCESS_SECRET" ELSE "REFRESH_SECRET"
SignToken(kind, id) ==
  [kind |-> kind, aud |-> id, sig |-> <<SecretOf(kind), id>>, expired |-> FALSE]
AccessToken(id) == SignToken("access", id)
RefreshToken(id) == SignToken("refresh", id)

\* the outcome of verification: the name of the error thrown, or "ok"
VerifyError(kind, tok) ==
  IF tok.sig # <<SecretOf(kind), tok.aud>> THEN "JsonWebTokenError"
  ELSE IF tok.expired THEN "TokenExpiredError" ELSE "ok"
\* the payload's aud claim, once verification passed
VerifiedAud(tok) == tok.aud
verifyRefreshToken(tok) == VerifiedAud(tok)

(***************************************************************************)
(* Requests and responses                                                  *)
(***************************************************************************)
\* http.ServerResponse: statusCode is 200 until res.status(n) is called
DefaultStatus == 200

\* of a request, the handler it reached and the user key it carried
NoReq == [op |-> "none", id |-> "", email |-> ""]
NewRes == [status |-> DefaultStatus, msg |-> "", accessToken |-> NoToken,
           refreshToken |-> NoToken, cookieAccess |-> NoToken,
           cookieRefresh |-> NoToken, userId |-> "", data |-> NoDoc]

Respond(status, msg) == [NewRes EXCEPT !.status = status, !.msg = msg]
\* res.json without a preceding res.status: the status stays at its default
RespondJson(msg) == [NewRes EXCEPT !.msg = msg]

GenericError == "Internal server error. Please try again later."

\* the handler invocations in flight when requests are served concurrently:
\* of each, the await it is suspended at (pc), its request, the status it
\* answered, whether it issued tokens and wrote an OTP record, and whether
\* its write landed on a hash its oldPassword no longer matched
Slots == {"r1", "r2"}
IdleCall == [pc |-> "idle", op |-> "none", id |-> "", Username |-> "", email |-> "",
             password |-> 0, newPassword |-> 0, confirmNewPassword |-> 0,
             status |-> 0, tokens |-> FALSE, otpWritten |-> FALSE,
             staleWrite |-> FALSE]

Init ==
  /\ users = {}
  /\ otps = {}
  /\ timers = {}
  /\ nextId = 1
  /\ req = NoReq
  /\ res = NewRes
  /\ liked = {}
  /\ calls = [p \in Slots |-> IdleCall]

(***************************************************************************)
(* register (User.js 13-76)                                                *)
(***************************************************************************)
\* the call of the try block that throws, if any: the lookup of line 18 ...
RegisterFaults == {"none", "findOne"}
\* ... or, once User.create has returned, OTP.create or the signing of a token
PersistFaults == {"otpCreate", "sign"}

\* the initials-avatar URL of line 42
DefaultImage == <<"url", "dicebear">>

\* the document User.create persists
NewUser(id, Username, email, hashedPwd) ==
  [_id |-> id, Username |-> Username, email |-> Lowercase(email),
   password |-> hashedPwd, image |-> DefaultImage, isVerified |-> IsVerifiedDefault,
   markedForDeletion |-> FALSE]

\* the unique index on Username rejects the insert
CreateRejected(Username) == \E u \in users : u.Username = Username

\* the id whose tokens register issues
RegisterTokenSubject(user) == user._id

RegisterIssued(user) ==
  [NewRes EXCEPT !.status = 201,
                 !.msg = "created",
                 !.accessToken = AccessToken(RegisterTokenSubject(user)),
                 !.refreshToken = RefreshToken(RegisterTokenSubject(user)),
                 !.cookieAccess = AccessToken(RegisterTokenSubject(user)),
                 !.cookieRefresh = RefreshToken(RegisterTokenSubject(user)),
                 !.userId = user._id]

\* faulty variant: the filter is compared as sent, without the schema's setter
RegisterDuplicate_Raw(email) == \E u \in users : u.email = email

\* the duplicate lookup of lines 18-23
RegisterDuplicate(email) == FindByEmail(email) # NoDoc

register(Username, email, password, salt, otp, fault) ==
  LET user == NewUser(ObjectIds[nextId], Username, email, BcryptHash(password, salt))
      r == [NoReq EXCEPT !.op = "register", !.email = email]
  IN
  /\ req' = r
  /\ UNCHANGED <<liked, calls>>
  /\ UNCHANGED timers
  /\ IF fault = "findOne"
     THEN /\ res' = Respond(500, "Internal server error")
          /\ UNCHANGED <<users, otps, nextId>>
     ELSE IF RegisterDuplicate(email)
     THEN /\ res' = Respond(409, "User already exists. Try signing up with a different email.")
          /\ UNCHANGED <<users, otps, nextId>>
     ELSE IF fault = "create" \/ CreateRejected(Username)
     THEN /\ res' = Respond(500, "Internal server error")
          /\ UNCHANGED <<users, otps, nextId>>
     ELSE /\ nextId <= Len(ObjectIds)
          /\ users' = users \cup {user}
          /\ nextId' = nextId + 1
          /\ IF fault = "otpCreate"
             THEN /\ res' = Respond(500, "Internal server error")
                  /\ UNCHANGED otps
             ELSE /\ otps' = otps \cup {[email |-> email, otp |-> otp]}
                  /\ res' = IF fault = "sign"
                            THEN Respond(500, "Internal server error")
                            ELSE RegisterIssued(user)

(***************************************************************************)
(* Email verification (external flow that flips isVerified)                *)
(***************************************************************************)
verifyEmail(id) ==
  /\ FindById(id) # NoDoc
  /\ ~FindById(id).isVerified
  /\ users' = {IF u._id = id THEN [u EXCEPT !.isVerified = TRUE] ELSE u : u \in users}
  /\ req' = [NoReq EXCEPT !.op = "verifyEmail", !.id = id]
  /\ UNCHANGED <<liked, calls>>
  /\ res' = NewRes
  /\ UNCHANGED <<otps, timers, nextId>>

(***************************************************************************)
(* login (User.js 79-126)                                                  *)
(***************************************************************************)
LoginFaults == {"none", "findOne"}

\* faulty variant: the password is not compared with the stored hash
LoginThrown_NoCompare(email, password, fault) ==
  IF fault = "findOne" THEN "MongoError"
  ELSE IF FindByEmail(email) = NoDoc THEN "User not found"
  ELSE "ok"

\* the message of the error thrown in the try block, "ok" when none is
LoginThrown(email, password, fault) ==
  IF fault = "findOne" THEN "MongoError"
  ELSE IF FindByEmail(email) = NoDoc THEN "User not found"
  ELSE IF ~BcryptCompare(password, FindByEmail(email).password) THEN "Invalid credentials"
  ELSE IF fault = "sign" THEN "secretOrPrivateKey must have a value"
  ELSE "ok"

\* the catch block of lines 113-125
LoginCatch(message) ==
  IF message = "User not found" THEN Respond(404, "User not found")
  ELSE IF message = "Invalid credentials" THEN Respond(401, "Invalid credentials")
  ELSE RespondJson(GenericError)

\* faulty variant: the tokens are signed for the email instead of the id
LoginTokenSubject_Email(user) == user.email

\* the id whose tokens login issues
LoginTokenSubject(user) == user._id

LoginIssued(user) ==
  [NewRes EXCEPT !.status = 200,
                 !.msg = "logged in",
                 !.accessToken = AccessToken(LoginTokenSubject(user)),
                 !.refreshToken = RefreshToken(LoginTokenSubject(user)),
                 !.cookieAccess = AccessToken(LoginTokenSubject(user)),
                 !.cookieRefresh = RefreshToken(LoginTokenSubject(user)),
                 !.userId = user._id]

login(email, password, fault) ==
  /\ req' = [NoReq EXCEPT !.op = "login", !.email = email]
  /\ UNCHANGED <<liked, calls>>
  /\ res' = IF LoginThrown(email, password, fault) = "ok"
            THEN LoginIssued(FindByEmail(email))
            ELSE LoginCatch(LoginThrown(email, password, fault))
  /\ UNCHANGED <<users, otps, timers, nextId>>

(***************************************************************************)
(* updatePassword (User.js 128-180)                                        *)
(***************************************************************************)
StoreFaults == {"none", "store"}

\* what a request may send as confirmNewPassword: the new password again,
\* or a string that differs from it
Confirmations(newPassword) == {newPassword, 0}

\* User.findById casts the id first: a string that is no ObjectId throws
FindByIdThrows(id, fault) == fault = "store" \/ ~ObjectIdIsValid(id)

UpdatePasswordThrown(id, oldPassword, newPassword, confirmNewPassword, fault) ==
  IF FindByIdThrows(id, fault) THEN "CastError"
  ELSE IF FindById(id) = NoDoc THEN "User not found"
  ELSE IF ~FindById(id).isVerified THEN "User is not verified"
  ELSE IF newPassword # confirmNewPassword THEN "New passwords do not match"
  ELSE IF ~BcryptCompare(oldPassword, FindById(id).password) THEN "Invalid old password"
  ELSE "ok"

\* the catch block of lines 162-179
UpdatePasswordCatch(message) ==
  IF message = "User not found" THEN Respond(404, "User not found")
  ELSE IF message = "User is not verified" THEN Respond(401, "User is not verified")
  ELSE IF message = "New passwords do not match" THEN Respond(400, "New passwords do not match")
  ELSE IF message = "Invalid old password" THEN Respond(401, "Invalid old password")
  ELSE RespondJson(GenericError)

updatePassword(id, oldPassword, newPassword, confirmNewPassword, salt, fault) ==
  LET thrown == UpdatePasswordThrown(id, oldPassword, newPassword, confirmNewPassword, fault)
  IN
  /\ req' = [NoReq EXCEPT !.op = "updatePassword", !.id = id]
  /\ UNCHANGED <<liked, calls>>
  /\ IF thrown = "ok"
     THEN /\ users' = FindByIdAndUpdate(id, [password |-> BcryptHash(newPassword, salt)])
          /\ res' = Respond(200, "Password updated successfully")
     ELSE /\ res' = UpdatePasswordCatch(thrown)
          /\ UNCHANGED users
  /\ UNCHANGED <<otps, timers, nextId>>

(***************************************************************************)
(* updateImage (User.js 183-228)                                           *)
(***************************************************************************)
\* req.file.buffer.toString("base64")
Base64(file) == <<"base64", file>>

\* faulty variant: the isVerified test is missing
UpdateImageThrown_NoGate(id, file, fault) ==
  IF ~ObjectIdIsValid(id) THEN "Invalid user ID format"
  ELSE IF fault = "store" THEN "MongoError"
  ELSE IF FindById(id) = NoDoc THEN "User not found"
  ELSE IF file = NoFile THEN "No image file provided"
  ELSE "ok"

UpdateImageThrown(id, file, fault) ==
  IF ~ObjectIdIsValid(id) THEN "Invalid user ID format"
  ELSE IF fault = "store" THEN "MongoError"
  ELSE IF FindById(id) = NoDoc THEN "User not found"
  ELSE IF ~FindById(id).isVerified THEN "User is not verified"
  ELSE IF file = NoFile THEN "No image file provided"
  ELSE "ok"

\* the catch block of lines 210-227
UpdateImageCatch(message) ==
  IF message = "Invalid user ID format" THEN Respond(400, "Invalid user ID format")
  ELSE IF message = "User not found" THEN Respond(404, "User not found")
  ELSE IF message = "User is not verified" THEN Respond(401, "User is not verified")
  ELSE IF message = "No image file provided" THEN Respond(400, "No image file provided")
  ELSE RespondJson(GenericError)

updateImage(id, file, fault) ==
  LET thrown == UpdateImageThrown(id, file, fault)
  IN
  /\ req' = [NoReq EXCEPT !.op = "updateImage", !.id = id]
  /\ UNCHANGED <<liked, calls>>
  /\ IF thrown = "ok"
     THEN /\ users' = FindByIdAndUpdate(id, [image |-> Base64(file)])
          /\ res' = Respond(200, "Image updated successfully")
     ELSE /\ res' = UpdateImageCatch(thrown)
          /\ UNCHANGED users
  /\ UNCHANGED <<otps, timers, nextId>>

(***************************************************************************)
(* logout (User.js 231-241)                                                *)
(***************************************************************************)
\* faulty variant: logging out also drops the pending callbacks
logout_CancelsTimers ==
  /\ req' = [NoReq EXCEPT !.op = "logout"]
  /\ UNCHANGED <<liked, calls>>
  /\ res' = [NewRes EXCEPT !.status = 200,
                           !.msg = "user logged out successfully",
                           !.cookieAccess = ClearedCookie,
                           !.cookieRefresh = ClearedCookie]
  /\ timers' = {}
  /\ UNCHANGED <<users, otps, nextId>>

logout ==
  /\ req' = [NoReq EXCEPT !.op = "logout"]
  /\ UNCHANGED <<liked, calls>>
  /\ res' = [NewRes EXCEPT !.status = 200,
                           !.msg = "user logged out successfully",
                           !.cookieAccess = ClearedCookie,
                           !.cookieRefresh = ClearedCookie]
  /\ UNCHANGED <<users, otps, timers, nextId>>

(***************************************************************************)
(* userInfo (User.js 244-285); aud is req.payload.aud                      *)
(***************************************************************************)
\* faulty variant: the audience test is missing
UserInfoThrown_NoAud(id, aud, fault) ==
  IF ~ObjectIdIsValid(id) THEN "Invalid user ID format"
  ELSE IF fault = "store" THEN "MongoError"
  ELSE IF FindById(id) = NoDoc THEN "User not found"
  ELSE IF ~FindById(id).isVerified THEN "User is not verified"
  ELSE "ok"

UserInfoThrown(id, aud, fault) ==
  IF ~ObjectIdIsValid(id) THEN "Invalid user ID format"
  ELSE IF aud # id THEN "Invalid access token"
  ELSE IF fault = "store" THEN "MongoError"
  ELSE IF FindById(id) = NoDoc THEN "User not found"
  ELSE IF ~FindById(id).isVerified THEN "User is not verified"
  ELSE "ok"

\* the catch block of lines 267-284
UserInfoCatch(message) ==
  IF message = "Invalid user ID format" THEN Respond(400, "Invalid user ID format")
  ELSE IF message = "Invalid access token" THEN Respond(401, "Invalid access token")
  ELSE IF message = "User not found" THEN Respond(404, "User not found")
  ELSE IF message = "User is not verified" THEN Respond(401, "User is not verified")
  ELSE RespondJson(GenericError)

userInfo(id, aud, fault) ==
  LET thrown == UserInfoThrown(id, aud, fault)
  IN
  /\ req' = [NoReq EXCEPT !.op = "userInfo", !.id = id]
  /\ UNCHANGED <<liked, calls>>
  /\ res' = IF thrown = "ok"
            THEN [NewRes EXCEPT !.status = 200, !.msg = "data", !.data = FindById(id)]
            ELSE UserInfoCatch(thrown)
  /\ UNCHANGED <<users, otps, timers, nextId>>

(***************************************************************************)
(* deleteUser (User.js 288-345)                                            *)
(***************************************************************************)
\* faulty variant: the OTP is looked up by email alone
FoundOTP_EmailOnly(email, otp) == \E o \in otps : o.email = email

\* OTP.findOne({ email, otp })
FoundOTP(email, otp) == [email |-> email, otp |-> otp] \in otps

\* the test of line 308, on the document read at line 292
DeletionScheduled(userDetails) == DocGet(userDetails, "markedForDeletion") = TRUE

\* the callback of lines 309-333, as setTimeout holds it
DeferredDeletionOf(userDetails) == [id |-> userDetails._id, email |-> userDetails.email]

deleteUser(id, email, otp) ==
  LET userDetails == FindById(id)
  IN
  /\ req' = [NoReq EXCEPT !.op = "deleteUser", !.id = id, !.email = email]
  /\ UNCHANGED <<liked, calls>>
  /\ UNCHANGED <<otps, nextId>>
  /\ IF ~ObjectIdIsValid(id)
     THEN /\ res' = Respond(500, "CastError")
          /\ UNCHANGED <<users, timers>>
     ELSE IF userDetails = NoDoc
     THEN /\ res' = Respond(409, "No such user found")
          /\ UNCHANGED <<users, timers>>
     ELSE IF ~userDetails.isVerified
     THEN /\ res' = Respond(401, "Verify Your Email")
          /\ UNCHANGED <<users, timers>>
     ELSE IF ~FoundOTP(email, otp)
     THEN /\ res' = Respond(400, "OTP doesn't match")
          /\ UNCHANGED <<users, timers>>
     ELSE /\ users' = FindByIdAndUpdate(id, [markedForDeletion |-> TRUE])
          /\ timers' = IF DeletionScheduled(userDetails)
                       THEN timers \cup {DeferredDeletionOf(userDetails)}
                       ELSE timers
          /\ res' = Respond(200, "User Deleted Successfully")

\* the identifiers the module binds (lines 1-11) do not include Email, so
\* evaluating Email at line 312 throws a ReferenceError
EmailIsBound == FALSE

\* the response the callback writes at lines 318-326
CallbackResponse ==
  [NewRes EXCEPT !.status = 200,
                 !.msg = "user logged out successfully",
                 !.cookieAccess = ClearedCookie,
                 !.cookieRefresh = ClearedCookie]

\* the setTimeout callback (lines 309-333): User.deleteOne, then
\* Email.deleteOne and the cookies, unless a statement throws; the catch of
\* line 330 only logs
DeferredDeletion(t) ==
  /\ t \in timers
  /\ timers' = timers \ {t}
  /\ users' = {u \in users : u._id # t.id}
  /\ liked' = IF EmailIsBound THEN liked \ {t.email} ELSE liked
  /\ res' = IF EmailIsBound THEN CallbackResponse ELSE res
  /\ req' = [NoReq EXCEPT !.op = "deferredDeletion", !.id = t.id, !.email = t.email]
  /\ UNCHANGED <<otps, nextId, calls>>

(***************************************************************************)
(* refreshroute (User.js 347-385)                                          *)
(***************************************************************************)
\* the RefreshToken cookies a request may carry
RefreshCookies ==
  {NoToken,
   RefreshToken("id1"), RefreshToken("id3"), RefreshToken(""),
   [RefreshToken("id1") EXCEPT !.expired = TRUE],
   [RefreshToken("id1") EXCEPT !.aud = "id2"],
   AccessToken("id1")}

\* verification may also throw an error that is neither of the two jwt names
RefreshFaults == {"none", "other"}

\* the name of the error verifyRefreshToken throws, "ok" when it returns
RefreshThrown(cookie, fault) ==
  IF fault = "other" THEN "Error" ELSE VerifyError("refresh", cookie)

\* faulty variant: the TokenExpiredError branch is missing
RefreshCatch_NoExpired(name) ==
  IF name = "JsonWebTokenError" THEN Respond(401, "Invalid refresh token")
  ELSE Respond(500, "Internal Server Error")

\* the catch block of lines 376-384
RefreshCatch(name) ==
  IF name = "JsonWebTokenError" THEN Respond(401, "Invalid refresh token")
  ELSE IF name = "TokenExpiredError" THEN Respond(401, "Refresh token expired")
  ELSE Respond(500, "Internal Server Error")

\* faulty variant: tokens are issued only for an id that has a User record
RefreshIssued_Checked(userId) ==
  IF \E u \in users : u._id = userId
  THEN [NewRes EXCEPT !.status = 200,
                      !.msg = "refreshed",
                      !.accessToken = AccessToken(userId),
                      !.refreshToken = RefreshToken(userId),
                      !.cookieAccess = AccessToken(userId),
                      !.cookieRefresh = RefreshToken(userId)]
  ELSE Respond(401, "Invalid refresh token")

\* lines 360-375: the new pair, in both cookies and in the body
RefreshIssued(userId) ==
  [NewRes EXCEPT !.status = 200,
                 !.msg = "refreshed",
                 !.accessToken = AccessToken(userId),
                 !.refreshToken = RefreshToken(userId),
                 !.cookieAccess = AccessToken(userId),
                 !.cookieRefresh = RefreshToken(userId)]

refreshroute(cookie, fault) ==
  /\ req' = [NoReq EXCEPT !.op = "refreshroute"]
  /\ UNCHANGED <<liked, calls>>
  /\ res' = IF cookie = NoToken
            THEN Respond(401, "Refresh token missing")
            ELSE IF RefreshThrown(cookie, fault) # "ok"
            THEN RefreshCatch(RefreshThrown(cookie, fault))
            ELSE IF verifyRefreshToken(cookie) = ""
            THEN Respond(401, "Invalid refresh token")
            ELSE RefreshIssued(verifyRefreshToken(cookie))
  /\ UNCHANGED <<users, otps, timers, nextId>>

Next ==
  \/ \E un \in Usernames, e \in Emails, p \in Passwords, s \in Salts,
        o \in GeneratedOtps, f \in RegisterFaults : register(un, e, p, s, o, f)
  \/ \E id \in WellFormedIds : verifyEmail(id)
  \/ \E e \in Emails, p \in Passwords, f \in LoginFaults : login(e, p, f)
  \/ \E id \in PathIds, old \in Passwords, new \in Passwords,
        s \in Salts, f \in StoreFaults :
        \E confirm \in Confirmations(new) : updatePassword(id, old, new, confirm, s, f)
  \/ \E id \in PathIds, file \in Files, f \in StoreFaults : updateImage(id, file, f)
  \/ logout
  \/ \E id \in PathIds, aud \in WellFormedIds, f \in StoreFaults : userInfo(id, aud, f)
  \/ \E id \in PathIds, e \in Emails, o \in OtpCodes : deleteUser(id, e, o)
  \/ \E c \in RefreshCookies, f \in RefreshFaults : refreshroute(c, f)

Spec == Init /\ [][Next]_vars

\* register with a call that throws after User.create has returned
RegisterAfterCreate ==
  \E un \in Usernames, e \in Emails, p \in Passwords, s \in Salts,
     o \in GeneratedOtps, f \in PersistFaults : register(un, e, p, s, o, f)

\* A store in which a deletion may be pending: one verified user with a
\* liked-items record or none, whose stored document may carry
\* markedForDeletion, and for whom line 309 may have handed a callback to
\* setTimeout (which it does only for a flagged document, line 308).
TimerInit ==
  /\ \E flagged \in BOOLEAN, pending \in BOOLEAN, l \in SUBSET {"a@x.com"} :
       LET u == [NewUser(ObjectIds[1], "ann", "a@x.com", BcryptHash(1, "s1"))
                   EXCEPT !.isVerified = TRUE, !.markedForDeletion = flagged]
       IN /\ pending => flagged
          /\ users = {u}
          /\ timers = IF pending THEN {DeferredDeletionOf(u)} ELSE {}
          /\ liked = l
  /\ otps = {[email |-> "a@x.com", otp |-> "111111"]}
  /\ nextId = 2
  /\ req = NoReq
  /\ res = NewRes
  /\ calls = [p \in Slots |-> IdleCall]

\* the handlers and the timer callbacks the runtime runs
TimerNext == Next \/ \E t \in timers : DeferredDeletion(t)

TimerSpec == TimerInit /\ [][TimerNext]_vars

(***************************************************************************)
(* register and updatePassword served concurrently: one step per await     *)
(***************************************************************************)
\* faulty variant: the collection has no unique index on email
InsertRejected_UsernameOnly(Username, email) == CreateRejected(Username)

\* User.create against the unique indexes on Username and email
\* (User.model.js 6-22): a duplicate key makes the insert throw
InsertRejected(Username, email) ==
  CreateRejected(Username) \/ \E u \in users : u.email = Lowercase(email)

\* lines 14-16: the handler is entered and reads req.body
StartRegister(p, Username, email, password) ==
  /\ calls[p].pc = "idle"
  /\ calls' = [calls EXCEPT ![p] = [IdleCall EXCEPT !.pc = "lookup", !.op = "register",
                                      !.Username = Username, !.email = email,
                                      !.password = password]]
  /\ UNCHANGED <<users, otps, timers, nextId, req, res, liked>>

\* lines 18-23: await User.findOne({ email })
RegisterLookup(p) ==
  /\ calls[p].pc = "lookup"
  /\ calls' = [calls EXCEPT ![p] =
                 IF RegisterDuplicate(calls[p].email)
                 THEN [@ EXCEPT !.pc = "done", !.status = 409]
                 ELSE [@ EXCEPT !.pc = "create"]]
  /\ UNCHANGED <<users, otps, timers, nextId, req, res, liked>>

\* lines 25-48: the hash, then await User.create; a throw goes to the catch
\* of line 70, which answers 500
RegisterCreate(p, salt) ==
  LET c == calls[p]
      user == NewUser(ObjectIds[nextId], c.Username, c.email, BcryptHash(c.password, salt))
  IN
  /\ c.pc = "create"
  /\ IF InsertRejected(c.Username, c.email)
     THEN /\ calls' = [calls EXCEPT ![p] = [@ EXCEPT !.pc = "done", !.status = 500]]
          /\ UNCHANGED <<users, nextId>>
     ELSE /\ nextId <= Len(ObjectIds)
          /\ users' = users \cup {user}
          /\ nextId' = nextId + 1
          /\ calls' = [calls EXCEPT ![p] = [@ EXCEPT !.pc = "otp", !.id = user._id]]
  /\ UNCHANGED <<otps, timers, req, res, liked>>

\* lines 49-69: await OTP.create, the tokens, the cookies and the 201
RegisterRespond(p, otp) ==
  /\ calls[p].pc = "otp"
  /\ otps' = otps \cup {[email |-> calls[p].email, otp |-> otp]}
  /\ calls' = [calls EXCEPT ![p] = [@ EXCEPT !.pc = "done", !.status = 201,
                                      !.tokens = TRUE, !.otpWritten = TRUE]]
  /\ UNCHANGED <<users, timers, nextId, req, res, liked>>

\* line 130: the handler is entered; the body is read at line 141
StartUpdatePassword(p, id, oldPassword, newPassword, confirmNewPassword) ==
  /\ calls[p].pc = "idle"
  /\ calls' = [calls EXCEPT ![p] = [IdleCall EXCEPT !.pc = "find", !.op = "updatePassword",
                                      !.id = id, !.password = oldPassword,
                                      !.newPassword = newPassword,
                                      !.confirmNewPassword = confirmNewPassword]]
  /\ UNCHANGED <<users, otps, timers, nextId, req, res, liked>>

\* lines 131-155: await User.findById and the checks on the document it
\* returned, bcrypt.compare with that document's hash included
UpdatePasswordCheck(p) ==
  LET c == calls[p]
      thrown == UpdatePasswordThrown(c.id, c.password, c.newPassword,
                                     c.confirmNewPassword, "none")
  IN
  /\ c.pc = "find"
  /\ calls' = [calls EXCEPT ![p] =
                 IF thrown = "ok"
                 THEN [@ EXCEPT !.pc = "write"]
                 ELSE [@ EXCEPT !.pc = "done", !.status = UpdatePasswordCatch(thrown).status]]
  /\ UNCHANGED <<users, otps, timers, nextId, req, res, liked>>

\* faulty variant: the update is filtered by the hash the check has read
WriteFilter_CompareAndSet(id, oldPassword) ==
  BcryptCompare(oldPassword, FindById(id).password)

\* the filter of line 159: findByIdAndUpdate selects by _id alone
WriteFilter(id, oldPassword) == TRUE

\* lines 157-161: the new hash, await User.findByIdAndUpdate, and the 200
UpdatePasswordWrite(p, salt) ==
  LET c == calls[p]
  IN
  /\ c.pc = "write"
  /\ users' = IF WriteFilter(c.id, c.password)
              THEN FindByIdAndUpdate(c.id, [password |-> BcryptHash(c.newPassword, salt)])
              ELSE users
  /\ calls' = [calls EXCEPT ![p] =
                 [@ EXCEPT !.pc = "done", !.status = 200,
                           !.staleWrite = ~BcryptCompare(c.password, FindById(c.id).password)]]
  /\ UNCHANGED <<otps, timers, nextId, req, res, liked>>

\* the store two racing requests meet: empty, or holding one verified user
ConcInit ==
  /\ \E populated \in BOOLEAN :
       /\ users = IF populated
                  THEN {[NewUser(ObjectIds[1], "ann", "a@x.com", BcryptHash(1, "s1"))
                           EXCEPT !.isVerified = TRUE]}
                  ELSE {}
       /\ otps = IF populated THEN {[email |-> "a@x.com", otp |-> "111111"]} ELSE {}
       /\ nextId = IF populated THEN 2 ELSE 1
  /\ timers = {}
  /\ req = NoReq
  /\ res = NewRes
  /\ liked = {}
  /\ calls = [p \in Slots |-> IdleCall]

ConcNext ==
  \E p \in Slots :
    \/ \E un \in Usernames, e \in Emails, pw \in Passwords : StartRegister(p, un, e, pw)
    \/ RegisterLookup(p)
    \/ \E s \in Salts : RegisterCreate(p, s)
    \/ \E o \in GeneratedOtps : RegisterRespond(p, o)
    \/ \E id \in PathIds, old \in Passwords, new \in Passwords :
         \E confirm \in Confirmations(new) : StartUpdatePassword(p, id, old, new, confirm)
    \/ UpdatePasswordCheck(p)
    \/ \E s \in Salts : UpdatePasswordWrite(p, s)

ConcSpec == ConcInit /\ [][ConcNext]_vars

\* the handlers, with every call of register's try block able to throw
FaultSpec == Init /\ [][Next \/ RegisterAfterCreate]_vars

\* the runtime runs every pending timer callback
FairSpec == Spec /\ WF_vars(\E t \in timers : DeferredDeletion(t))

(***************************************************************************)
(* Properties                                                              *)
(***************************************************************************)
UserIds == {ObjectIds[i] : i \in 1..Len(ObjectIds)}
Exists(id) == \E u \in users : u._id = id
Verified(id) == \E u \in users : u._id = id /\ u.isVerified
NoTokens(r) ==
  /\ r.accessToken = NoToken /\ r.refreshToken = NoToken
  /\ r.cookieAccess = NoToken /\ r.cookieRefresh = NoToken

\* C1: when no store call throws, a register request whose email (as the
\* schema stores it) already belongs to a User record answers 409, leaves
\* the User and OTP collections as they were and issues no token or cookie.
C1_DuplicateRegisterRejected ==
  [][\A un \in Usernames, e \in Emails, p \in Passwords, s \in Salts, o \in GeneratedOtps :
       (register(un, e, p, s, o, "none") /\ (\E u \in users : u.email = Lowercase(e)))
         => /\ res'.status = 409
            /\ users' = users
            /\ otps' = otps
            /\ NoTokens(res')]_vars

C1_Witness ==
  /\ req.op = "register"
  /\ res.status = 409
  /\ \E u \in users : u.email = Lowercase(req.email)
  /\ \E o \in otps : o.email = req.email

\* C2: a deleteUser call for an existing, verified user with an (email, otp)
\* pair of the OTP collection answers 200, leaves the stored user with
\* markedForDeletion true and schedules exactly one deferred deletion for
\* that user.
C2_DeleteMarksAndSchedules ==
  [][\A id \in UserIds, e \in Emails, o \in OtpCodes :
       (deleteUser(id, e, o) /\ Verified(id) /\ [email |-> e, otp |-> o] \in otps)
         => /\ res'.status = 200
            /\ \E u \in users' : u._id = id /\ u.markedForDeletion
            /\ \E t \in timers' : /\ t.id = id
                                  /\ t \notin timers
                                  /\ timers' = timers \cup {t}]_vars

\* C3: once deleteUser has answered 200 "User Deleted Successfully" for a
\* user, that user's record is eventually removed from the User collection.
DeleteConfirmed(id) ==
  req.op = "deleteUser" /\ req.id = id /\ res.msg = "User Deleted Successfully"

C3_EventuallyRemoved ==
  \A id \in UserIds : DeleteConfirmed(id) ~> ~Exists(id)

\* C4: in login, updatePassword, updateImage and userInfo a failure that is
\* none of the handler's named errors is answered with status 500 and the
\* generic message.
C4_UnanticipatedIs500 ==
  (req.op \in {"login", "updatePassword", "updateImage", "userInfo"} /\ res.msg = GenericError)
    => res.status = 500

\* C5 as stated: every refreshroute response that issues no token has
\* status 401.
C5_EveryFailureIs401 ==
  (req.op = "refreshroute" /\ NoTokens(res)) => res.status = 401

\* C5 amended: refreshroute answers 401 for a missing cookie, a signature
\* error, an expired token and a verification that yields no user id, and
\* 500 "Internal Server Error" for any other exception; it issues tokens
\* and cookies only when verification succeeded, and then for the verified
\* user id.
C5_RefreshFailures ==
  [][\A c \in RefreshCookies, f \in RefreshFaults :
       refreshroute(c, f) =>
         LET signed == c.sig = <<"REFRESH_SECRET", c.aud>>
         IN
         /\ c = NoToken => (res'.status = 401 /\ res'.msg = "Refresh token missing")
         /\ (c # NoToken /\ f = "other")
              => (res'.status = 500 /\ res'.msg = "Internal Server Error")
         /\ (c # NoToken /\ f = "none" /\ ~signed)
              => (res'.status = 401 /\ res'.msg = "Invalid refresh token")
         /\ (c # NoToken /\ f = "none" /\ signed /\ c.expired)
              => (res'.status = 401 /\ res'.msg = "Refresh token expired")
         /\ (c # NoToken /\ f = "none" /\ signed /\ ~c.expired /\ c.aud = "")
              => (res'.status = 401 /\ res'.msg = "Invalid refresh token")
         /\ res'.status # 200 => NoTokens(res')
         /\ ~NoTokens(res')
              => /\ c # NoToken /\ f = "none" /\ signed /\ ~c.expired /\ c.aud # ""
                 /\ res'.status = 200
                 /\ res'.accessToken = AccessToken(c.aud)
                 /\ res'.refreshToken = RefreshToken(c.aud)
                 /\ res'.cookieAccess = res'.accessToken
                 /\ res'.cookieRefresh = res'.refreshToken]_vars

C5_Witness ==
  req.op = "refreshroute" /\ res.status = 500 /\ res.msg = "Internal Server Error"

\* C6: the access and refresh token a successful register (201) or login
\* (200 with tokens) returns, in the body and as cookies, verify and carry
\* as aud the id of the user created or found by email, and no other
\* user's id.
VerifiesTo(kind, tok, id) == VerifyError(kind, tok) = "ok" /\ VerifiedAud(tok) = id

C6_TokensCarryUserId ==
  ((req.op = "register" /\ res.status = 201)
     \/ (req.op = "login" /\ res.status = 200 /\ ~NoTokens(res)))
    => \E u \in users :
         /\ u.email = Lowercase(req.email)
         /\ res.userId = u._id
         /\ VerifiesTo("access", res.accessToken, u._id)
         /\ VerifiesTo("refresh", res.refreshToken, u._id)
         /\ VerifiesTo("access", res.cookieAccess, u._id)
         /\ VerifiesTo("refresh", res.cookieRefresh, u._id)
         /\ \A v \in users \ {u} :
              /\ ~VerifiesTo("access", res.accessToken, v._id)
              /\ ~VerifiesTo("refresh", res.refreshToken, v._id)

C6_Witness ==
  /\ req.op = "login"
  /\ res.status = 200
  /\ Cardinality(users) = 2
  /\ \E u \in users : u.email = Lowercase(req.email) /\ res.accessToken = AccessToken(u._id)

\* C7: deleteUser for an existing, verified user with an (email, otp) pair
\* that no OTP record matches exactly answers 400 and leaves the User
\* collection, the OTP collection and the pending deferred deletions as
\* they were.
C7_WrongOtpNoEffect ==
  [][\A id \in UserIds, e \in Emails, o \in OtpCodes :
       (deleteUser(id, e, o) /\ Verified(id) /\ [email |-> e, otp |-> o] \notin otps)
         => /\ res'.status = 400
            /\ res'.msg = "OTP doesn't match"
            /\ UNCHANGED <<users, otps, timers>>]_vars

C7_Witness ==
  /\ req.op = "deleteUser"
  /\ res.status = 400
  /\ Verified(req.id)
  /\ \E o \in otps : o.email = req.email
  /\ \A o \in OtpCodes : [email |-> req.email, otp |-> o] \in otps => o = "111111"

\* C8: for a user whose isVerified is false, updatePassword leaves the
\* stored password, updateImage leaves the stored image and (when its
\* lookup returns) answers 401, userInfo returns no document, and
\* deleteUser neither sets markedForDeletion nor schedules a deletion.
C8_UnverifiedIsGated ==
  [][\A u \in users :
       ~u.isVerified =>
         /\ \A old \in Passwords, new \in Passwords, s \in Salts, f \in StoreFaults :
              \A confirm \in Confirmations(new) :
              updatePassword(u._id, old, new, confirm, s, f)
                => (users' = users /\ res'.msg # "Password updated successfully")
         /\ \A file \in Files, f \in StoreFaults :
              updateImage(u._id, file, f)
                => /\ users' = users
                   /\ res'.msg # "Image updated successfully"
                   /\ f = "none" => (res'.status = 401 /\ res'.msg = "User is not verified")
         /\ \A aud \in WellFormedIds, f \in StoreFaults :
              userInfo(u._id, aud, f) => res'.data = NoDoc
         /\ \A e \in Emails, o \in OtpCodes :
              deleteUser(u._id, e, o)
                => (users' = users /\ timers' = timers /\ res'.status = 401)]_vars

C8_Witness ==
  /\ req.op = "updateImage"
  /\ res.status = 401
  /\ Exists(req.id)
  /\ ~Verified(req.id)
  /\ \E o \in otps : TRUE

\* C9: the status of an updatePassword response is that of the first
\* failing precondition among user exists (404), user verified (401),
\* newPassword = confirmNewPassword (400), oldPassword matches the stored
\* hash (401), and 200 when all hold; the stored password changes only
\* with 200; unequal newPassword and confirmNewPassword are rejected.
UpdatePasswordStatus(id, oldPassword, newPassword, confirmNewPassword) ==
  IF ~Exists(id) THEN 404
  ELSE IF ~Verified(id) THEN 401
  ELSE IF newPassword # confirmNewPassword THEN 400
  ELSE IF \A u \in users : u._id = id => u.password.digest # <<u.password.salt, oldPassword>>
  THEN 401
  ELSE 200

C9_UpdatePasswordOrder ==
  [][\A id \in PathIds, old \in Passwords, new \in Passwords, s \in Salts :
       \A confirm \in Confirmations(new) :
       updatePassword(id, old, new, confirm, s, "none")
         => /\ res'.status = UpdatePasswordStatus(id, old, new, confirm)
            /\ users' # users => res'.status = 200
            /\ new # confirm => (res'.status # 200 /\ users' = users)]_vars

\* C10: userInfo answers with the status of the first failing check among
\* id well-formed (400), token audience equals id (401), user exists
\* (404), user verified (401), and returns the user's document with 200
\* only when all four hold; so for a user just registered, with the own id
\* and the own token, it answers 401.
UserInfoStatus(id, aud) ==
  IF id \notin WellFormedIds THEN 400
  ELSE IF aud # id THEN 401
  ELSE IF ~Exists(id) THEN 404
  ELSE IF ~Verified(id) THEN 401
  ELSE 200

C10_UserInfoOrder ==
  [][\A id \in PathIds, aud \in WellFormedIds, f \in StoreFaults :
       userInfo(id, aud, f)
         => /\ f = "none" => res'.status = UserInfoStatus(id, aud)
            /\ f = "none" => (res'.data # NoDoc <=> UserInfoStatus(id, aud) = 200)
            /\ res'.data # NoDoc
                 => /\ aud = id /\ Exists(id) /\ Verified(id)
                    /\ res'.data \in users
                    /\ res'.data._id = id
                    /\ res'.status = 200]_vars

C10_Witness ==
  /\ req.op = "userInfo"
  /\ res.status = 401
  /\ res.msg = "User is not verified"
  /\ Exists(req.id)
  /\ ~Verified(req.id)

\* C11: when no store call throws, login answers 404 "User not found"
\* exactly when no User record holds the email (as the schema stores it),
\* 401 "Invalid credentials" exactly when a record holds it and the password
\* does not match its hash, and 200 with both tokens and both cookies
\* otherwise; it leaves the User and OTP collections as they were; and a
\* register that answered 201 leaves a record that its own email and
\* password log in to.
C11_LoginOutcome ==
  [][/\ \A e \in Emails, p \in Passwords :
          login(e, p, "none")
            => LET found == \E u \in users : u.email = Lowercase(e)
                   match == \E u \in users : /\ u.email = Lowercase(e)
                                              /\ BcryptCompare(p, u.password)
               IN /\ (res'.status = 404 /\ res'.msg = "User not found") <=> ~found
                  /\ (res'.status = 401 /\ res'.msg = "Invalid credentials")
                       <=> (found /\ ~match)
                  /\ match => /\ res'.status = 200
                              /\ res'.accessToken.kind = "access"
                              /\ res'.refreshToken.kind = "refresh"
                              /\ res'.cookieAccess = res'.accessToken
                              /\ res'.cookieRefresh = res'.refreshToken
                  /\ res'.status \in {200, 401, 404}
                  /\ users' = users /\ otps' = otps
     /\ \A un \in Usernames, e \in Emails, p \in Passwords, s \in Salts, o \in GeneratedOtps :
          (register(un, e, p, s, o, "none") /\ res'.status = 201)
            => \E u \in users' : u.email = Lowercase(e) /\ BcryptCompare(p, u.password)]_vars

\* a login with a wrong password was answered 401 for an existing user
C11_Witness ==
  /\ req.op = "login"
  /\ res.status = 401 /\ res.msg = "Invalid credentials"
  /\ \E u \in users : u.email = Lowercase(req.email)

\* C12: in every state -- whatever was issued, rotated or logged out
\* before, and whether or not a User record with that id exists -- a
\* refresh request whose cookie verifies to a user id U is answered 200
\* with an access and a refresh token for U in the body and in both
\* cookies, and leaves every collection and the pending timers as they were.
C12_RefreshStateless ==
  [][\A c \in RefreshCookies :
       (refreshroute(c, "none") /\ c # NoToken /\ VerifyError("refresh", c) = "ok"
          /\ VerifiedAud(c) # "")
         => /\ res'.status = 200
            /\ res'.accessToken = AccessToken(VerifiedAud(c))
            /\ res'.refreshToken = RefreshToken(VerifiedAud(c))
            /\ res'.cookieAccess = res'.accessToken
            /\ res'.cookieRefresh = res'.refreshToken
            /\ VerifyError("refresh", res'.refreshToken) = "ok"
            /\ users' = users /\ otps' = otps /\ liked' = liked /\ timers' = timers]_vars

\* a refresh was answered 200 for an id that has no User record
C12_Witness ==
  /\ req.op = "refreshroute"
  /\ res.status = 200
  /\ res.refreshToken.kind = "refresh"
  /\ ~Exists(res.refreshToken.aud)
  /\ users # {}

RacedRegisters(p, q) ==
  /\ p # q
  /\ calls[p].op = "register" /\ calls[q].op = "register"
  /\ calls[p].pc = "done" /\ calls[q].pc = "done"
  /\ calls[p].status # 409 /\ calls[q].status # 409
  /\ Lowercase(calls[p].email) = Lowercase(calls[q].email)

UniqueUsers ==
  \A u \in users, v \in users :
    (u.email = v.email \/ u.Username = v.Username) => u = v

\* the loser of a race: 500, no tokens, no OTP record written by it
Rejected(c) == c.status = 500 /\ ~c.tokens /\ ~c.otpWritten

C16_LastWriteWins ==
  [][\A p \in Slots :
       (calls[p].pc = "write" /\ calls'[p].pc = "done")
         => /\ calls'[p].status = 200
            /\ \E u \in users' : /\ u._id = calls[p].id
                                  /\ BcryptCompare(calls[p].newPassword, u.password)]_vars

\* two calls for one user, both carrying the old password, both answered
\* 200; the later write landed on a hash its oldPassword did not match
C16_Witness ==
  \E p \in Slots, q \in Slots :
    /\ p # q
    /\ calls[p].op = "updatePassword" /\ calls[q].op = "updatePassword"
    /\ calls[p].id = calls[q].id
    /\ calls[p].password = calls[q].password
    /\ calls[p].status = 200 /\ calls[q].status = 200
    /\ ~calls[p].staleWrite /\ calls[q].staleWrite
    /\ \E u \in users : /\ u._id = calls[q].id
                         /\ BcryptCompare(calls[q].newPassword, u.password)
                         /\ ~BcryptCompare(calls[p].newPassword, u.password)

\* C17: deleteUser answers 200 for the user with path id X only when the
\* email of the request body, whose OTP record it matched, is X's own
\* stored email.
C17_OtpBoundToUser ==
  [][\A id \in UserIds, e \in Emails, o \in OtpCodes :
       (deleteUser(id, e, o) /\ res'.status = 200)
         => /\ FindById(id).email = Lowercase(e)
            /\ \E r \in otps : Lowercase(r.email) = FindById(id).email /\ r.otp = o]_vars

\* C18: in every state every User record has an OTP record for its email,
\* and every register step that persists a User record answers 201 and
\* leaves an OTP record for it, whichever call of its try block throws.
C18_CreatedHasOtp ==
  /\ [](\A u \in users : \E r \in otps : Lowercase(r.email) = u.email)
  /\ [][\A un \in Usernames, e \in Emails, p \in Passwords, s \in Salts,
          o \in GeneratedOtps, f \in RegisterFaults \cup PersistFaults :
         (register(un, e, p, s, o, f) /\ users' # users)
           => /\ res'.status = 201
              /\ \E r \in otps' : Lowercase(r.email) = Lowercase(e)]_vars
====
